---------------------------- MODULE Spec2Model ----------------------------
(***************************************************************************)
(* A model of test_tube/argparse_hopt.py: the three execution models of    *)
(* HyperOptArgumentParser.                                                  *)
(*                                                                          *)
(*   Spec      the pooled models: optimize_parallel_gpu,                    *)
(*             optimize_trials_parallel_gpu and optimize_parallel_cpu on    *)
(*             one parser, their multiprocessing.Pool workers running       *)
(*             optimize_parallel_gpu_private / optimize_parallel_cpu_private*)
(*             and the shared queue of GPU ids.                             *)
(*   SpecFork  the forked-batch model: optimize_parallel.                   *)
(*                                                                          *)
(* Pool.map is modelled as CPython's multiprocessing.pool does it: the      *)
(* tasks go to the workers in submission order, a worker process runs one   *)
(* task at a time, each result comes back tagged with the task's index and  *)
(* is stored at that index, and map returns the values, or raises the first *)
(* exception a task raised, once every task has reported.  With at most     *)
(* 4 * processes tasks a chunk is one task, which is the case within the    *)
(* bounds below.                                                            *)
(***************************************************************************)
EXTENDS Integers, Sequences, FiniteSets, Bags, TLC

\* ------------------------------------------------------------- bounds
MaxTrials == 2
MaxWorkers == 2
MaxGpuIds == 2
MaxForkTrials == 5
MaxParallel == 3
MaxNbTrials == 2
MaxSavers == 2
MaxChunks == 2

\* ------------------------------------------------------------- values
\* Python's None, as a callback's return value and as the failure marker.
None == "None"
\* What a training callback may return.
RetVals == {"r1", None}
\* GPU ids: the id strings '0', '1', ... are named by their number.
Tokens == 0..(MaxGpuIds - 1)
NoToken == -1

\* The trial lists submitted: n configurations (the TTNamespace built for
\* each trial), each named by its position of submission.  No worker reads
\* a configuration; it only travels into the trial's result entry.
TrialLists == {[i \in 1..n |-> i] : n \in 0..MaxTrials}
\* The gpu_ids lists supplied: ['0', ..., 'n-1'] for each n, and a list that
\* names the same id twice.
GpuIdLists == {[i \in 1..n |-> i - 1] : n \in 0..MaxGpuIds} \cup {<<0, 0>>}

Range(s) == {s[i] : i \in DOMAIN s}
SeqToBag(s) == [x \in Range(s) |-> Cardinality({i \in DOMAIN s : s[i] = x})]
IsDistinct(s) == \A i, j \in DOMAIN s : i # j => s[i] # s[j]

VARIABLES
    \* ---- the parser (HyperOptArgumentParser) and its pool
    pool,           \* self.pool
    pools_created,  \* how many Pool objects this parser has constructed
    trials,         \* self.trials: the configurations submitted by the call
    gpu_q,          \* the multiprocessing.Queue of GPU ids (FIFO)
    seeded,         \* the GPU ids put into gpu_q when it was built
    \* ---- the entry point call in progress (or the last one)
    entry,          \* the model of the call: "none" | "gpu" | "cpu"
    status,         \* "idle" | "running" | "returned" | "raised"
    args,           \* the gpu_ids given to the call
    made_pool,      \* whether this call constructed the pool
    results,        \* what the call returned
    \* ---- Pool.map
    taskq,          \* task indices not yet taken by a worker
    map_result,     \* MapResult: value, number_left, success, exc
    \* ---- the worker processes
    wst,            \* per worker: pc, task, token, env, ret
    outcome,        \* per task: what its callback did
    overtaken,      \* a trial has reported before one submitted earlier
    \* ---- the forked-batch model (optimize_parallel)
    fpc,            \* the parent's position: "idle" | "fork" | "wait" | "done"
    nb_trials,      \* len(self.trials)
    nb_parallel,
    fork_batches,   \* the batches: sequences of trial indices
    batch_i,        \* index of the current batch
    trial_j,        \* position in the current batch of the next fork
    children,       \* pids of the current batch's children
    wait_k,         \* position in children of the next waitpid
    procs,          \* every child forked by this call: batch, trial, state
    \* the search space and the trials (SpecTrials)
    strategy,       \* self.strategy
    added,          \* the option strings registered by add_argument
    opt_args,       \* self.opt_args: the OptArg objects in insertion order
    tpc,            \* "declare" until parse_args has run, then "parsed"
    parsed_args,    \* self.parsed_args: the deep copy parse_args took
    base0,          \* history: parsed_args as parse_args left it
    raw_trials,     \* the trials the last call got from the strategy
    configs,        \* the namespaces the last call built from them
    terr,           \* the exception the last call raised, or "none"
    last,           \* the last call and its arguments
    \* the files of Experiment.save (SpecSave)
    fs_dst,         \* the inode the name dst_path refers to
    fs_tmp,         \* the inode the name dst_path + '.tmp' refers to, or NoFile
    inode_data,     \* the content of every inode, a sequence of chunks
    savers          \* the processes that save: position, open file, offset

pvars == <<pool, pools_created, trials, gpu_q, seeded, entry, status, args,
           made_pool, results, taskq, map_result, wst, outcome, overtaken>>
fvars == <<fpc, nb_trials, nb_parallel, fork_batches, batch_i, trial_j,
           children, wait_k, procs>>
tvars == <<strategy, added, opt_args, tpc, parsed_args, base0, raw_trials,
           configs, terr, last>>
svars == <<fs_dst, fs_tmp, inode_data, savers>>
vars == <<pvars, fvars, tvars, svars>>

\* ------------------------------------------------------------- the pool
NoPool == [id |-> 0, processes |-> 0, has_q |-> FALSE]
IdleWorker == [pc |-> "idle", task |-> 0, token |-> NoToken, env |-> NoToken,
               ret |-> <<>>]
Pending == <<>>
NotRun == <<>>

Workers == 1..pool.processes
IsGpu == entry = "gpu"

\* The worker holds a token: between g_gpu_id_q.get and g_gpu_id_q.put.
Holding(w) == wst[w].pc \in {"gpu_call", "gpu_hung", "gpu_finally"}

\* __init__: self.trials = [], self.pool = None.
InitParser ==
    /\ pool = NoPool
    /\ pools_created = 0
    /\ trials = <<>>
    /\ gpu_q = <<>>
    /\ seeded = <<>>
    /\ entry = "none"
    /\ status = "idle"
    /\ args = [gpu_ids |-> <<>>]
    /\ made_pool = FALSE
    /\ results = <<>>
    /\ taskq = <<>>
    /\ map_result = [value |-> <<>>, number_left |-> 0, success |-> TRUE,
                     exc |-> <<>>]
    /\ wst = [w \in 1..MaxWorkers |-> IdleWorker]
    /\ outcome = <<>>
    /\ overtaken = FALSE

InitFork ==
    /\ fpc = "idle"
    /\ nb_trials = 0
    /\ nb_parallel = 1
    /\ fork_batches = <<>>
    /\ batch_i = 0
    /\ trial_j = 0
    /\ children = <<>>
    /\ wait_k = 0
    /\ procs = <<>>

\* self.strategy = strategy (default 'grid_search'), self.parsed_args = None,
\* self.opt_args = {}.
InitSearch(s) ==
    /\ strategy = s
    /\ added = {}
    /\ opt_args = <<>>
    /\ tpc = "declare"
    /\ parsed_args = <<>>
    /\ base0 = <<>>
    /\ raw_trials = <<>>
    /\ configs = <<>>
    /\ terr = "none"
    /\ last = [op |-> "init"]

\* No file of that name.
NoFile == 0

\* The content of a file: MaxChunks chunks, <<w, k>> the k-th chunk written
\* by process w, <<>> where nothing was written (a new or truncated file).
EmptyData == [k \in 1..MaxChunks |-> <<>>]
FullData(w) == [k \in 1..MaxChunks |-> <<w, k>>]

\* What dst_path holds before any save: a complete file of an earlier run,
\* its writer called 0.
OldData == FullData(0)

IdleSaver == [pc |-> "idle", ino |-> NoFile, off |-> 0]

\* dst_path exists with its old content, the temporary file does not.
InitSave ==
    /\ fs_dst = 1
    /\ fs_tmp = NoFile
    /\ inode_data = <<OldData>>
    /\ savers = [p \in 1..MaxSavers |-> IdleSaver]

Init == InitParser /\ InitFork /\ InitSearch("grid_search") /\ InitSave


\* ------------------------------------------------- the entry points
\* Mutant of PoolIsNone: the test is dropped, every call builds a pool.
PoolIsNoneAlways == TRUE

\* `if self.pool is None`.
PoolIsNone == pool = NoPool

\* pool.map(f, self.trials): one task per trial, in submission order.
MapStart(ts) ==
    /\ trials' = ts
    /\ taskq' = [i \in 1..Len(ts) |-> i]
    /\ map_result' = [value |-> [i \in 1..Len(ts) |-> Pending],
                      number_left |-> Len(ts), success |-> TRUE, exc |-> <<>>]
    /\ outcome' = [i \in 1..Len(ts) |-> NotRun]
    /\ overtaken' = FALSE
    /\ status' = "running"
    /\ results' = <<>>

\* Lines 192-203 and 230-241: the queue and the pool are built only when the
\* parser has no pool yet; the workers' initializer stores the queue in the
\* global g_gpu_id_q.
GpuPoolSetup(gpu_ids, nb_workers) ==
    IF PoolIsNone
    THEN /\ gpu_q' = gpu_ids
         /\ seeded' = gpu_ids
         /\ pool' = [id |-> pools_created + 1, processes |-> nb_workers,
                     has_q |-> TRUE]
         /\ pools_created' = pools_created + 1
         /\ made_pool' = TRUE
         /\ wst' = [w \in 1..MaxWorkers |-> IdleWorker]
    ELSE /\ made_pool' = FALSE
         /\ UNCHANGED <<gpu_q, seeded, pool, pools_created, wst>>

\* Lines 269-270: Pool(processes=nb_workers), no initializer, no queue.
CpuPoolSetup(nb_workers) ==
    IF PoolIsNone
    THEN /\ pool' = [id |-> pools_created + 1, processes |-> nb_workers,
                     has_q |-> FALSE]
         /\ pools_created' = pools_created + 1
         /\ made_pool' = TRUE
         /\ wst' = [w \in 1..MaxWorkers |-> IdleWorker]
         /\ UNCHANGED <<gpu_q, seeded>>
    ELSE /\ made_pool' = FALSE
         /\ UNCHANGED <<gpu_q, seeded, pool, pools_created, wst>>

OptimizeParallelGpu(ts, gpu_ids, nb_workers) ==
    /\ status # "running"
    /\ entry' = "gpu"
    /\ args' = [gpu_ids |-> gpu_ids]
    /\ GpuPoolSetup(gpu_ids, nb_workers)
    /\ MapStart(ts)
    /\ UNCHANGED <<fvars, tvars, svars>>

OptimizeTrialsParallelGpu(ts, gpu_ids, nb_workers) ==
    /\ status # "running"
    /\ entry' = "gpu"
    /\ args' = [gpu_ids |-> gpu_ids]
    /\ GpuPoolSetup(gpu_ids, nb_workers)
    /\ MapStart(ts)
    /\ UNCHANGED <<fvars, tvars, svars>>

OptimizeParallelCpu(ts, nb_workers) ==
    /\ status # "running"
    /\ entry' = "cpu"
    /\ args' = [gpu_ids |-> <<>>]
    /\ CpuPoolSetup(nb_workers)
    /\ MapStart(ts)
    /\ UNCHANGED <<fvars, tvars, svars>>

\* ------------------------------------------------- the worker processes
\* Mutant of QGet: the head of the queue is read but left in the queue.
QGetPeek(q) == [item |-> Head(q), rest |-> q]

\* Queue.get(block=True): the head of the queue, removed from it.
QGet(q) == [item |-> Head(q), rest |-> Tail(q)]
\* Mutant of QPut: the token is put back twice.
QPutTwice(q, x) == Append(Append(q, x), x)

\* Queue.put(x, block=True).
QPut(q, x) == Append(q, x)

\* Mutant of MapResultSet: the value goes to the first free slot, so the
\* values are kept in the order of completion.
MapResultSetInArrivalOrder(value, i, result) ==
    LET k == CHOOSE k \in DOMAIN value :
                /\ value[k] = Pending
                /\ \A j \in 1..(k - 1) : value[j] # Pending
    IN  [value EXCEPT ![k] = result]

\* Task j is still in the task queue or being run by a worker.
Unfinished(j) ==
    \/ \E k \in DOMAIN taskq : taskq[k] = j
    \/ \E w \in Workers : wst[w].task = j

\* MapResult._set with chunks of one task: the value goes to slot i.
MapResultSet(value, i, result) == [value EXCEPT ![i] = result]

\* A worker sends (task index, success, value) back to the parent, whose
\* result handler takes the messages in the order sent: MapResult._set
\* stores a value while no task has failed, keeps the first exception, and
\* counts the task as done.
Send(i, ok, val) ==
    /\ map_result' =
          IF ok /\ map_result.success
          THEN [map_result EXCEPT
                  !.value = MapResultSet(map_result.value, i, val),
                  !.number_left = @ - 1]
          ELSE IF ~ok /\ map_result.success
          THEN [map_result EXCEPT !.success = FALSE, !.exc = val,
                                  !.number_left = @ - 1]
          ELSE [map_result EXCEPT !.number_left = @ - 1]
    /\ overtaken' = (overtaken \/ \E j \in 1..(i - 1) : Unfinished(j))

\* The worker is ready for its next task; os.environ stays as it is.
Finish(w) == wst' = [wst EXCEPT ![w].pc = "idle", ![w].task = 0,
                                 ![w].token = NoToken, ![w].ret = <<>>]

\* A worker takes the next task from the pool's task queue.
TakeTask(w) ==
    /\ status = "running"
    /\ w \in Workers
    /\ wst[w].pc = "idle"
    /\ taskq # <<>>
    /\ wst' = [wst EXCEPT ![w].pc = IF IsGpu THEN "gpu_get" ELSE "cpu_call",
                          ![w].task = Head(taskq)]
    /\ taskq' = Tail(taskq)
    /\ UNCHANGED <<pool, pools_created, trials, gpu_q, seeded, entry, status,
                   args, made_pool, results, map_result, outcome>>
    /\ UNCHANGED overtaken
    /\ UNCHANGED <<fvars, tvars, svars>>

\* Mutant of GpuGet: the token is taken but CUDA_VISIBLE_DEVICES is left as
\* it was.
GpuGetNoEnv(w) ==
    /\ w \in Workers
    /\ wst[w].pc = "gpu_get"
    /\ pool.has_q
    /\ gpu_q # <<>>
    /\ gpu_q' = QGet(gpu_q).rest
    /\ wst' = [wst EXCEPT ![w].pc = "gpu_call",
                          ![w].token = QGet(gpu_q).item]
    /\ UNCHANGED <<pool, pools_created, trials, seeded, entry, status, args,
                   made_pool, results, taskq, map_result, outcome>>
    /\ UNCHANGED overtaken
    /\ UNCHANGED <<fvars, tvars, svars>>

\* Lines 22-27: gpu_id_set = g_gpu_id_q.get(block=True), which blocks while
\* the queue is empty, then os.environ["CUDA_VISIBLE_DEVICES"] = gpu_id_set.
GpuGet(w) ==
    /\ w \in Workers
    /\ wst[w].pc = "gpu_get"
    /\ pool.has_q
    /\ gpu_q # <<>>
    /\ gpu_q' = QGet(gpu_q).rest
    /\ wst' = [wst EXCEPT ![w].pc = "gpu_call",
                          ![w].token = QGet(gpu_q).item,
                          ![w].env = QGet(gpu_q).item]
    /\ UNCHANGED <<pool, pools_created, trials, seeded, entry, status, args,
                   made_pool, results, taskq, map_result, outcome>>
    /\ UNCHANGED overtaken
    /\ UNCHANGED <<fvars, tvars, svars>>

\* Line 22 in a worker of a pool built by optimize_parallel_cpu: no
\* initializer has set g_gpu_id_q, the name is undefined, and the NameError
\* is raised before the try block and leaves the function.
GpuNameError(w) ==
    /\ w \in Workers
    /\ wst[w].pc = "gpu_get"
    /\ ~pool.has_q
    /\ Send(wst[w].task, FALSE, <<"NameError">>)
    /\ Finish(w)
    /\ UNCHANGED <<pool, pools_created, trials, gpu_q, seeded, entry, status,
                   args, made_pool, results, taskq, outcome>>
    /\ UNCHANGED <<fvars, tvars, svars>>

\* Lines 30-32: results = train_function(trial_params) returns v; the return
\* value [trial_params, results] is kept while the finally clause runs.
GpuTrainReturn(w, v) ==
    /\ w \in Workers
    /\ wst[w].pc = "gpu_call"
    /\ wst' = [wst EXCEPT ![w].pc = "gpu_finally",
                          ![w].ret = <<trials[wst[w].task], v>>]
    /\ outcome' = [outcome EXCEPT ![wst[w].task] = <<"ret", v>>]
    /\ UNCHANGED <<pool, pools_created, trials, gpu_q, seeded, entry, status,
                   args, made_pool, results, taskq, map_result>>
    /\ UNCHANGED overtaken
    /\ UNCHANGED <<fvars, tvars, svars>>

\* Mutant of GpuTrainRaise: the handler returns [trial_params, None] without
\* the finally clause, so the token is not put back.
GpuTrainRaiseNoFinally(w) ==
    /\ w \in Workers
    /\ wst[w].pc = "gpu_call"
    /\ Send(wst[w].task, TRUE, <<trials[wst[w].task], None>>)
    /\ Finish(w)
    /\ outcome' = [outcome EXCEPT ![wst[w].task] = <<"raise">>]
    /\ UNCHANGED <<pool, pools_created, trials, gpu_q, seeded, entry, status,
                   args, made_pool, results, taskq>>
    /\ UNCHANGED <<fvars, tvars, svars>>

\* Mutant of GpuTrainRaise: no except clause; the token is put back and the
\* exception leaves the function, as in optimize_parallel_cpu_private.
GpuTrainRaisePropagates(w) ==
    /\ w \in Workers
    /\ wst[w].pc = "gpu_call"
    /\ gpu_q' = QPut(gpu_q, wst[w].token)
    /\ Send(wst[w].task, FALSE, <<"TrainError">>)
    /\ Finish(w)
    /\ outcome' = [outcome EXCEPT ![wst[w].task] = <<"raise">>]
    /\ UNCHANGED <<pool, pools_created, trials, seeded, entry, status, args,
                   made_pool, results, taskq>>
    /\ UNCHANGED <<fvars, tvars, svars>>

\* Lines 34-40: train_function raises an Exception; it is caught, printed,
\* and the return value is [trial_params, None].
GpuTrainRaise(w) ==
    /\ w \in Workers
    /\ wst[w].pc = "gpu_call"
    /\ wst' = [wst EXCEPT ![w].pc = "gpu_finally",
                          ![w].ret = <<trials[wst[w].task], None>>]
    /\ outcome' = [outcome EXCEPT ![wst[w].task] = <<"raise">>]
    /\ UNCHANGED <<pool, pools_created, trials, gpu_q, seeded, entry, status,
                   args, made_pool, results, taskq, map_result>>
    /\ UNCHANGED overtaken
    /\ UNCHANGED <<fvars, tvars, svars>>

\* Lines 42-43: finally: g_gpu_id_q.put(gpu_id_set, block=True); then the
\* function returns and the pool sends the result back.
GpuFinally(w) ==
    /\ w \in Workers
    /\ wst[w].pc = "gpu_finally"
    /\ gpu_q' = QPut(gpu_q, wst[w].token)
    /\ Send(wst[w].task, TRUE, wst[w].ret)
    /\ Finish(w)
    /\ UNCHANGED <<pool, pools_created, trials, seeded, entry, status, args,
                   made_pool, results, taskq, outcome>>
    /\ UNCHANGED <<fvars, tvars, svars>>

\* Lines 52-55 (the sleep of line 49 only delays): train_function returns v
\* and the function returns [trial_params, results].
CpuTrainReturn(w, v) ==
    /\ w \in Workers
    /\ wst[w].pc = "cpu_call"
    /\ Send(wst[w].task, TRUE, <<trials[wst[w].task], v>>)
    /\ Finish(w)
    /\ outcome' = [outcome EXCEPT ![wst[w].task] = <<"ret", v>>]
    /\ UNCHANGED <<pool, pools_created, trials, gpu_q, seeded, entry, status,
                   args, made_pool, results, taskq>>
    /\ UNCHANGED <<fvars, tvars, svars>>

\* Mutant of CpuTrainRaise: the exception is caught and [trial_params, None]
\* returned, as in optimize_parallel_gpu_private.
CpuTrainRaiseIsolated(w) ==
    /\ w \in Workers
    /\ wst[w].pc = "cpu_call"
    /\ Send(wst[w].task, TRUE, <<trials[wst[w].task], None>>)
    /\ Finish(w)
    /\ outcome' = [outcome EXCEPT ![wst[w].task] = <<"raise">>]
    /\ UNCHANGED <<pool, pools_created, trials, gpu_q, seeded, entry, status,
                   args, made_pool, results, taskq>>
    /\ UNCHANGED <<fvars, tvars, svars>>

\* Line 52: train_function raises; nothing catches it, the exception leaves
\* the function and the pool sends it back as the task's failure.
CpuTrainRaise(w) ==
    /\ w \in Workers
    /\ wst[w].pc = "cpu_call"
    /\ Send(wst[w].task, FALSE, <<"TrainError">>)
    /\ Finish(w)
    /\ outcome' = [outcome EXCEPT ![wst[w].task] = <<"raise">>]
    /\ UNCHANGED <<pool, pools_created, trials, gpu_q, seeded, entry, status,
                   args, made_pool, results, taskq>>
    /\ UNCHANGED <<fvars, tvars, svars>>

\* The worker process dies inside train_function (killed, os._exit, a crash
\* of native code): no except or finally clause runs, nothing is sent back.
\* The pool replaces the process by a fresh one, which takes further tasks.
WorkerCrash(w) ==
    /\ w \in Workers
    /\ wst[w].pc \in {"gpu_call", "cpu_call"}
    /\ wst' = [wst EXCEPT ![w] = IdleWorker]
    /\ outcome' = [outcome EXCEPT ![wst[w].task] = <<"crash">>]
    /\ UNCHANGED <<pool, pools_created, trials, gpu_q, seeded, entry, status,
                   args, made_pool, results, taskq, map_result>>
    /\ UNCHANGED overtaken
    /\ UNCHANGED <<fvars, tvars, svars>>

\* ------------------------------------------------- Pool.map's return
\* Lines 206-207, 244-245, 273-274: results = self.pool.map(...); return
\* results.  map returns the values once every task has reported, or raises
\* the first exception a task reported.
MapReturn ==
    /\ status = "running"
    /\ map_result.number_left = 0
    /\ IF map_result.success
       THEN status' = "returned" /\ results' = map_result.value
       ELSE status' = "raised" /\ results' = <<>>
    /\ UNCHANGED <<pool, pools_created, trials, gpu_q, seeded, entry, args,
                   made_pool, taskq, map_result, wst, outcome>>
    /\ UNCHANGED overtaken
    /\ UNCHANGED <<fvars, tvars, svars>>

Next ==
    \/ \E ts \in TrialLists, ids \in GpuIdLists, n \in 1..MaxWorkers :
          OptimizeParallelGpu(ts, ids, n)
    \/ \E ts \in TrialLists, ids \in GpuIdLists, n \in 1..MaxWorkers :
          OptimizeTrialsParallelGpu(ts, ids, n)
    \/ \E ts \in TrialLists, n \in 1..MaxWorkers : OptimizeParallelCpu(ts, n)
    \/ \E w \in 1..MaxWorkers : TakeTask(w)
    \/ \E w \in 1..MaxWorkers : GpuGet(w)
    \/ \E w \in 1..MaxWorkers : GpuNameError(w)
    \/ \E w \in 1..MaxWorkers, v \in RetVals : GpuTrainReturn(w, v)
    \/ \E w \in 1..MaxWorkers : GpuTrainRaise(w)
    \/ \E w \in 1..MaxWorkers : GpuFinally(w)
    \/ \E w \in 1..MaxWorkers, v \in RetVals : CpuTrainReturn(w, v)
    \/ \E w \in 1..MaxWorkers : CpuTrainRaise(w)
    \/ \E w \in 1..MaxWorkers : WorkerCrash(w)
    \/ MapReturn

Spec == Init /\ [][Next]_vars


\* ------------------------------- a callback that never returns (SpecHang)
\* Mutant of GpuTrainHang: the token of the stuck worker is put back.
GpuTrainHangReleases(w) ==
    /\ w \in Workers
    /\ wst[w].pc = "gpu_call"
    /\ wst' = [wst EXCEPT ![w].pc = "gpu_hung"]
    /\ gpu_q' = QPut(gpu_q, wst[w].token)
    /\ outcome' = [outcome EXCEPT ![wst[w].task] = <<"hang">>]
    /\ UNCHANGED <<pool, pools_created, trials, seeded, entry, status, args,
                   made_pool, results, taskq, map_result>>
    /\ UNCHANGED overtaken
    /\ UNCHANGED <<fvars, tvars, svars>>

\* Line 30: train_function(trial_params) never returns.  The worker stays
\* inside the try block: neither the handler nor the finally clause runs and
\* no result is sent.
GpuTrainHang(w) ==
    /\ w \in Workers
    /\ wst[w].pc = "gpu_call"
    /\ wst' = [wst EXCEPT ![w].pc = "gpu_hung"]
    /\ outcome' = [outcome EXCEPT ![wst[w].task] = <<"hang">>]
    /\ UNCHANGED <<pool, pools_created, trials, gpu_q, seeded, entry, status,
                   args, made_pool, results, taskq, map_result>>
    /\ UNCHANGED overtaken
    /\ UNCHANGED <<fvars, tvars, svars>>

\* optimize_parallel_gpu calls on one parser, the callbacks returning,
\* raising or never returning.
NextHang ==
    \/ \E ts \in TrialLists, ids \in GpuIdLists, n \in 1..MaxWorkers :
          OptimizeParallelGpu(ts, ids, n)
    \/ \E w \in 1..MaxWorkers : TakeTask(w)
    \/ \E w \in 1..MaxWorkers : GpuGet(w)
    \/ \E w \in 1..MaxWorkers, v \in RetVals : GpuTrainReturn(w, v)
    \/ \E w \in 1..MaxWorkers : GpuTrainRaise(w)
    \/ \E w \in 1..MaxWorkers : GpuTrainHang(w)
    \/ \E w \in 1..MaxWorkers : GpuFinally(w)
    \/ MapReturn

SpecHang == Init /\ [][NextHang]_vars

\* ------------------------ terminating callbacks, fair scheduling (SpecFair)
\* The callback of the worker's trial ends, by returning or by raising.
CallbackEnds(w) ==
    \/ \E v \in RetVals : GpuTrainReturn(w, v)
    \/ GpuTrainRaise(w)
    \/ \E v \in RetVals : CpuTrainReturn(w, v)
    \/ CpuTrainRaise(w)

\* The next step of worker process w.
WorkerStep(w) ==
    \/ TakeTask(w)
    \/ GpuGet(w)
    \/ GpuNameError(w)
    \/ CallbackEnds(w)
    \/ GpuFinally(w)

\* Pooled calls on one parser whose callbacks all return or raise and whose
\* worker processes do not die.
NextFair ==
    \/ \E ts \in TrialLists, ids \in GpuIdLists, n \in 1..MaxWorkers :
          OptimizeParallelGpu(ts, ids, n)
    \/ \E ts \in TrialLists, n \in 1..MaxWorkers : OptimizeParallelCpu(ts, n)
    \/ \E w \in 1..MaxWorkers : WorkerStep(w)
    \/ MapReturn

\* The operating system runs every worker process that can take a step, and
\* Pool.map returns or raises once every task has reported.
Fairness ==
    /\ \A w \in 1..MaxWorkers : WF_vars(WorkerStep(w))
    /\ WF_vars(MapReturn)

SpecFair == Init /\ [][NextFair]_vars /\ Fairness

\* ------------------------------------------- the forked-batch model
Min(a, b) == IF a < b THEN a ELSE b

\* range(i, n, p) as a sequence.
RECURSIVE PyRange(_, _, _)
PyRange(i, n, p) == IF i >= n THEN <<>> ELSE <<i>> \o PyRange(i + p, n, p)

\* Mutant of Slice: the end index is taken as inclusive.
SliceInclusive(s, i, j) == SubSeq(s, i + 1, Min(j + 1, Len(s)))

\* The slice s[i:j] of a Python list (0-based, j exclusive, cut at len(s)).
Slice(s, i, j) == SubSeq(s, i + 1, Min(j, Len(s)))

\* Lines 289-291:
\* [self.trials[i:i + nb_parallel] for i in range(0, len(self.trials), nb_parallel)]
ForkBatches(ts, p) ==
    LET starts == PyRange(0, Len(ts), p)
    IN  [k \in 1..Len(starts) |-> Slice(ts, starts[k], starts[k] + p)]

\* The trials generated for a call, named by their position of submission.
ForkTrials(n) == [i \in 1..n |-> i]

\* The parent enters the loop over fork_batches at batch b, or leaves it.
EnterBatch(b, batches) ==
    IF b <= Len(batches)
    THEN /\ fpc' = "fork"
         /\ batch_i' = b
         /\ trial_j' = 1
         /\ children' = <<>>
         /\ wait_k' = 0
    ELSE /\ fpc' = "done"
         /\ batch_i' = b
         /\ trial_j' = 0
         /\ children' = <<>>
         /\ wait_k' = 0

\* Lines 282-293: the trials are generated and split into batches.
OptimizeParallel(n, p) ==
    /\ fpc \in {"idle", "done"}
    /\ nb_trials' = n
    /\ nb_parallel' = p
    /\ fork_batches' = ForkBatches(ForkTrials(n), p)
    /\ procs' = <<>>
    /\ EnterBatch(1, ForkBatches(ForkTrials(n), p))
    /\ UNCHANGED <<pvars, tvars, svars>>

\* The pid under which the model knows the process that called
\* optimize_parallel; the children are numbered from 1.
ParentPid == 0

\* Lines 297-307 in the parent: pid = os.fork(); children.append(pid).  The
\* child starts at line 312 with parallel_nb its position in the batch.
Fork ==
    /\ fpc = "fork"
    /\ trial_j <= Len(fork_batches[batch_i])
    /\ procs' = Append(procs, [batch |-> batch_i,
                               trial |-> fork_batches[batch_i][trial_j],
                               parallel_nb |-> trial_j - 1,
                               state |-> "running", code |-> 0,
                               parent |-> ParentPid])
    /\ children' = Append(children, Len(procs) + 1)
    /\ IF trial_j < Len(fork_batches[batch_i])
       THEN trial_j' = trial_j + 1 /\ UNCHANGED <<fpc, wait_k>>
       ELSE trial_j' = trial_j + 1 /\ fpc' = "wait" /\ wait_k' = 1
    /\ UNCHANGED <<nb_trials, nb_parallel, fork_batches, batch_i>>
    /\ UNCHANGED <<pvars, tvars, svars>>

\* waitpid collects the exit status of a child that has terminated.
Reap(p) == IF p.state = "exited" THEN [p EXCEPT !.state = "reaped"] ELSE p

\* Mutant of ChildTerminated: waitpid with WNOHANG returns at once.
WaitpidNoHang(pid) == TRUE

\* os.waitpid(child, 0) returns only once the child has terminated.
ChildTerminated(pid) == procs[pid].state # "running"

\* Mutant of Waitpid: the parent gives up the call when a child it waited
\* for has ended with a non-zero exit status.
WaitpidAbortsOnFailure ==
    /\ fpc = "wait"
    /\ wait_k <= Len(children)
    /\ procs[children[wait_k]].state # "running"
    /\ procs' = [procs EXCEPT ![children[wait_k]].state = "reaped"]
    /\ IF procs[children[wait_k]].code # 0
       THEN /\ fpc' = "done"
            /\ UNCHANGED <<batch_i, trial_j, children, wait_k>>
       ELSE IF wait_k < Len(children)
       THEN /\ wait_k' = wait_k + 1
            /\ UNCHANGED <<fpc, batch_i, trial_j, children>>
       ELSE EnterBatch(batch_i + 1, fork_batches)
    /\ UNCHANGED <<nb_trials, nb_parallel, fork_batches>>
    /\ UNCHANGED <<pvars, tvars, svars>>

\* Lines 316-317: for i, child in enumerate(children): os.waitpid(child, 0);
\* after the last child of the batch the outer loop goes to the next batch.
Waitpid ==
    /\ fpc = "wait"
    /\ wait_k <= Len(children)
    /\ ChildTerminated(children[wait_k])
    /\ procs' = [procs EXCEPT ![children[wait_k]] = Reap(@)]
    /\ IF wait_k < Len(children)
       THEN /\ wait_k' = wait_k + 1
            /\ UNCHANGED <<fpc, batch_i, trial_j, children>>
       ELSE EnterBatch(batch_i + 1, fork_batches)
    /\ UNCHANGED <<nb_trials, nb_parallel, fork_batches>>
    /\ UNCHANGED <<pvars, tvars, svars>>

\* Mutant of ChildReturn: os._exit(0) is left out, the child goes on with its
\* copy of the loop and forks the next trial itself.
ChildReturnNoExit(c) ==
    /\ c \in DOMAIN procs
    /\ procs[c].state = "running"
    /\ procs' = Append(procs, [batch |-> procs[c].batch,
                               trial |-> procs[c].trial,
                               parallel_nb |-> procs[c].parallel_nb + 1,
                               state |-> "running", code |-> 0,
                               parent |-> c])
    /\ UNCHANGED <<fpc, nb_trials, nb_parallel, fork_batches, batch_i,
                   trial_j, children, wait_k>>
    /\ UNCHANGED <<pvars, tvars, svars>>

\* Lines 312-314 in the child: train_function(ns, parallel_nb) returns and
\* the child leaves by os._exit(0).
ChildReturn(c) ==
    /\ c \in DOMAIN procs
    /\ procs[c].state = "running"
    /\ procs' = [procs EXCEPT ![c].state = "exited", ![c].code = 0]
    /\ UNCHANGED <<fpc, nb_trials, nb_parallel, fork_batches, batch_i,
                   trial_j, children, wait_k>>
    /\ UNCHANGED <<pvars, tvars, svars>>

\* Line 313 in the child: train_function raises; the exception leaves
\* optimize_parallel in the child process, which (no caller catching it)
\* ends with exit status 1.
ChildRaise(c) ==
    /\ c \in DOMAIN procs
    /\ procs[c].state = "running"
    /\ procs' = [procs EXCEPT ![c].state = "exited", ![c].code = 1]
    /\ UNCHANGED <<fpc, nb_trials, nb_parallel, fork_batches, batch_i,
                   trial_j, children, wait_k>>
    /\ UNCHANGED <<pvars, tvars, svars>>

NextFork ==
    \/ \E n \in 0..MaxForkTrials, p \in 1..MaxParallel : OptimizeParallel(n, p)
    \/ Fork
    \/ Waitpid
    \/ \E c \in 1..MaxForkTrials : ChildReturn(c)
    \/ \E c \in 1..MaxForkTrials : ChildRaise(c)

SpecFork == Init /\ [][NextFork]_vars


\* --------------------------------------- the search space and the trials
\* Option strings, as sequences of characters.
FlagA == <<"-", "-", "a">>
FlagB == <<"-", "-", "b">>
FlagCD == <<"-", "-", "c", "-", "d">>
PlainFlags == {FlagA}
OptFlags == {FlagB, FlagCD}

\* The values on offer: options of opt_list, bounds of opt_range, values from
\* the command line.
OptionLists == {<<1>>, <<1, 2>>, <<2, 1>>}
Lows == {0, 1, 3}
Highs == {2}
SampleCounts == {0, 1, 3}
LogBases == {<<>>, <<2>>}
ParsedVals == {0, 3}
Strategies == {"grid_search", "random_search"}

\* re.sub('-', '', opt_name): every hyphen is removed.
CleanName(opt_name) == SelectSeq(opt_name, LAMBDA c : c # "-")

RECURSIVE LStrip(_)
LStrip(s) == IF s # <<>> /\ Head(s) = "-" THEN LStrip(Tail(s)) ELSE s

\* argparse's key for an option string: the leading prefix characters are
\* stripped and the remaining hyphens become underscores.
Dest(option_string) ==
    [i \in 1..Len(LStrip(option_string)) |->
        IF LStrip(option_string)[i] = "-" THEN "_" ELSE LStrip(option_string)[i]]

\* A list of values, or the single number the log-scale branch stores.
ListOf(vals) == [list |-> TRUE, vals |-> vals]
ScalarOf(v) == [list |-> FALSE, vals |-> <<v>>]

\* OptArg.__init__, lines 362-379: self.opt_values once the constructor is
\* done.  draw is what np.random.uniform returned: nb_samples numbers between
\* the bounds.  The uniform branch assigns them to the local opt_values, so
\* self.opt_values stays [low, high]; the log-scale branch calls uniform
\* without a size and stores log_base ** (one number).
OptArgSamples(opt_values, nb_samples, log_base, draw) ==
    IF nb_samples # 0
    THEN IF log_base = <<>>
         THEN ListOf(opt_values)
         ELSE ScalarOf(draw[1])
    ELSE ListOf(opt_values)

\* Lines 367-375: `assert high >= low > 0` fails; it is reached only under
\* `if nb_samples:` and `log_base is not None`.
OptArgAsserts(opt_values, nb_samples, log_base) ==
    /\ nb_samples # 0
    /\ log_base # <<>>
    /\ ~(opt_values[2] >= opt_values[1] /\ opt_values[1] > 0)

\* OptArg(obj_id, opt_values, nb_samples, tunable, log_base).
OptArg(obj_id, opt_values, nb_samples, tunable, log_base, draw) ==
    [obj_id |-> obj_id,
     opt_values |-> OptArgSamples(opt_values, nb_samples, log_base, draw),
     tunable |-> tunable]

Max(a, b) == IF a > b THEN a ELSE b

\* The draws of np.random.uniform(low, high, nb_samples), on whole numbers:
\* nb_samples numbers between the bounds; for the log-scale branch, the one
\* number log_base ** np.random.uniform(log_low, log_high), which lies
\* between the bounds as well.
Draws(low, high, nb_samples, log_base) ==
    IF nb_samples = 0
    THEN {<<>>}
    ELSE IF log_base = <<>>
         THEN [1..nb_samples -> Min(low, high)..Max(low, high)]
         ELSE [1..1 -> Min(low, high)..Max(low, high)]

\* self.opt_args[arg_name] = ...: a new key goes last, a known key keeps its
\* place.
DictSet(d, k, v) ==
    IF \E i \in DOMAIN d : d[i].obj_id = k
    THEN [i \in DOMAIN d |-> IF d[i].obj_id = k THEN v ELSE d[i]]
    ELSE Append(d, v)

\* add_argument(flag) of argparse.
AddArgument(flag) ==
    /\ tpc = "declare"
    /\ flag \notin added
    /\ added' = added \cup {flag}
    /\ terr' = "none"
    /\ last' = [op |-> "add_argument", flag |-> flag]
    /\ UNCHANGED <<strategy, opt_args, tpc, parsed_args, base0, raw_trials,
                   configs>>
    /\ UNCHANGED <<pvars, fvars, svars>>

\* Lines 84-89: opt_list(flag, options=..., tunable=...).  nb_samples is left
\* at None, so the options are stored as they are.
OptList(flag, options, tunable) ==
    /\ tpc = "declare"
    /\ flag \notin added
    /\ added' = added \cup {flag}
    /\ opt_args' = DictSet(opt_args, flag,
                           OptArg(flag, options, 0, tunable, <<>>, <<>>))
    /\ terr' = "none"
    /\ last' = [op |-> "opt_list", flag |-> flag]
    /\ UNCHANGED <<strategy, tpc, parsed_args, base0, raw_trials, configs>>
    /\ UNCHANGED <<pvars, fvars, svars>>

\* Lines 91-110: opt_range(flag, low=..., high=..., nb_samples=...,
\* tunable=..., log_base=...).  add_argument comes first; an assertion that
\* fails in OptArg.__init__ leaves self.opt_args as it was.
OptRange(flag, low, high, nb_samples, tunable, log_base) ==
    /\ tpc = "declare"
    /\ flag \notin added
    /\ added' = added \cup {flag}
    /\ last' = [op |-> "opt_range", flag |-> flag, low |-> low, high |-> high,
                nb_samples |-> nb_samples, log_base |-> log_base,
                tunable |-> tunable]
    /\ IF OptArgAsserts(<<low, high>>, nb_samples, log_base)
       THEN /\ terr' = "AssertionError"
            /\ UNCHANGED opt_args
       ELSE /\ terr' = "none"
            /\ \E draw \in Draws(low, high, nb_samples, log_base) :
                  opt_args' = DictSet(opt_args, flag,
                                      OptArg(flag, <<low, high>>, nb_samples,
                                             tunable, log_base, draw))
    /\ UNCHANGED <<strategy, tpc, parsed_args, base0, raw_trials, configs>>
    /\ UNCHANGED <<pvars, fvars, svars>>

\* Lines 116-139: parse_args.  The values come from the command line and the
\* defaults, here one value for all arguments; self.parsed_args is a deep
\* copy of them, keyed by argparse's dest of every registered argument.
ParseArgs(value) ==
    /\ tpc = "declare"
    /\ tpc' = "parsed"
    /\ parsed_args' = [k \in {Dest(f) : f \in added} |-> value]
    /\ base0' = parsed_args'
    /\ terr' = "none"
    /\ last' = [op |-> "parse_args"]
    /\ UNCHANGED <<strategy, added, opt_args, raw_trials, configs>>
    /\ UNCHANGED <<pvars, fvars, svars>>

\* Mutant of ParamGroup: a record carries the position of the candidate in
\* the list instead of the candidate.
ParamGroupPositions(i, opt_arg) ==
    [j \in 1..Len(opt_arg.opt_values.vals) |->
        [idx |-> i - 1, val |-> j, name |-> CleanName(opt_arg.obj_id)]]

\* Lines 339-340: the group of the parameter at position i of the dictionary;
\* enumerate counts from 0.
ParamGroup(i, opt_arg) ==
    [j \in 1..Len(opt_arg.opt_values.vals) |->
        [idx |-> i - 1, val |-> opt_arg.opt_values.vals[j],
         name |-> CleanName(opt_arg.obj_id)]]

\* Mutant of FlattenFrom: the test of opt_arg.tunable is dropped.
RECURSIVE FlattenFromAll(_, _)
FlattenFromAll(params, i) ==
    IF i > Len(params)
    THEN <<>>
    ELSE <<ParamGroup(i, params[i])>> \o FlattenFromAll(params, i + 1)

\* Lines 334-342: the loop of __flatten_params from position i on.
RECURSIVE FlattenFrom(_, _)
FlattenFrom(params, i) ==
    IF i > Len(params)
    THEN <<>>
    ELSE (IF params[i].tunable THEN <<ParamGroup(i, params[i])>> ELSE <<>>)
         \o FlattenFrom(params, i + 1)

\* Mutant of FlattenParams: the groups come out last parameter first.
FlattenParamsReversed(params) ==
    [g \in 1..Len(FlattenFrom(params, 1)) |->
        FlattenFrom(params, 1)[Len(FlattenFrom(params, 1)) + 1 - g]]

\* __flatten_params(self.opt_args).
FlattenParams(params) == FlattenFrom(params, 1)

\* `for val in opt_arg.opt_values` on the number the log-scale branch stored:
\* TypeError, the object is not iterable.
FlattenRaises(params) ==
    \E i \in DOMAIN params : params[i].tunable /\ ~params[i].opt_values.list

RECURSIVE Cat(_)
Cat(ss) == IF ss = <<>> THEN <<>> ELSE Head(ss) \o Cat(Tail(ss))

\* The Cartesian product of the groups, the first group varying slowest, each
\* group in its candidate order.
RECURSIVE Product(_)
Product(groups) ==
    IF groups = <<>>
    THEN << <<>> >>
    ELSE LET rest == Product(Tail(groups))
         IN  Cat([j \in 1..Len(Head(groups)) |->
                    [k \in 1..Len(rest) |-> <<Head(groups)[j]>> \o rest[k]]])

\* strategies.generate_trials(strategy, flat_params, nb_trials), the trial
\* lists it may return.  grid_search: the whole product, nb_trials ignored.
\* random_search: nb_trials trials, each with one candidate of every group.
StrategyTrials(s, flat_params, nb) ==
    LET product == Product(flat_params)
    IN  IF s = "grid_search"
        THEN {product}
        ELSE [1..nb -> Range(product)]

\* Line 320: {d['name']: d['val'] for d in trial}; of two entries with one
\* name the later one stays.
TrialDict(trial) ==
    [k \in {trial[i].name : i \in DOMAIN trial} |->
        LET m == CHOOSE i \in DOMAIN trial :
                    /\ trial[i].name = k
                    /\ \A j \in DOMAIN trial : trial[j].name = k => j <= i
        IN  trial[m].val]

\* Mutant of NamespaceFromTrial: parsed_args takes precedence.
NamespaceFromTrialBaseWins(trial, parsed) ==
    [k \in DOMAIN TrialDict(trial) \cup DOMAIN parsed |->
        IF k \in DOMAIN parsed THEN parsed[k] ELSE TrialDict(trial)[k]]

\* Lines 319-325: __namespace_from_trial.  The trial's assignments, then
\* every entry of self.parsed_args whose key no assignment has.
NamespaceFromTrial(trial, parsed) ==
    LET trial_dict == TrialDict(trial)
    IN  [k \in DOMAIN trial_dict \cup DOMAIN parsed |->
            IF k \in DOMAIN trial_dict THEN trial_dict[k] ELSE parsed[k]]

\* Mutant of ParsedArgsAfter: the assignments are written into
\* self.parsed_args itself.
ParsedArgsAfterUpdated(trial, parsed) == NamespaceFromTrial(trial, parsed)

\* Lines 319-325: self.parsed_args after __namespace_from_trial; it is only
\* read, the assignments go into the new dictionary trial_dict.
ParsedArgsAfter(trial, parsed) == parsed

\* Mutant of BuildAll: only the first trial is built.
BuildAllFirstOnly(ts, parsed) ==
    IF ts = <<>>
    THEN [configs |-> <<>>, parsed |-> parsed]
    ELSE [configs |-> <<NamespaceFromTrial(Head(ts), parsed)>>,
          parsed |-> parsed]

\* [self.__namespace_from_trial(x) for x in trials]: the namespaces in the
\* order of the trials, and self.parsed_args after the last of them.
RECURSIVE BuildAll(_, _)
BuildAll(ts, parsed) ==
    IF ts = <<>>
    THEN [configs |-> <<>>, parsed |-> parsed]
    ELSE LET r == BuildAll(Tail(ts), ParsedArgsAfter(Head(ts), parsed))
         IN  [configs |-> <<NamespaceFromTrial(Head(ts), parsed)>> \o r.configs,
              parsed |-> r.parsed]

\* The common part of generate_trials, opt_trials and the optimize_* calls:
\* flatten, ask the strategy, build one namespace per trial.
Generate(nb) ==
    IF FlattenRaises(opt_args)
    THEN /\ terr' = "TypeError"
         /\ UNCHANGED <<raw_trials, configs, parsed_args>>
    ELSE \E ts \in StrategyTrials(strategy, FlattenParams(opt_args), nb) :
            LET built == BuildAll(ts, parsed_args)
            IN  /\ terr' = "none"
                /\ raw_trials' = ts
                /\ configs' = built.configs
                /\ parsed_args' = built.parsed

\* Lines 157-165: generate_trials(nb_trials).
GenerateTrials(nb) ==
    /\ tpc = "parsed"
    /\ last' = [op |-> "generate", nb |-> nb]
    /\ Generate(nb)
    /\ UNCHANGED <<strategy, added, opt_args, tpc, base0>>
    /\ UNCHANGED <<pvars, fvars, svars>>

\* Lines 146-155: opt_trials(num), the generator run to its end.
OptTrials(num) ==
    /\ tpc = "parsed"
    /\ last' = [op |-> "generate", nb |-> num]
    /\ Generate(num)
    /\ UNCHANGED <<strategy, added, opt_args, tpc, base0>>
    /\ UNCHANGED <<pvars, fvars, svars>>

\* Lines 182-188, 260-266 and 282-300: the trials a pooled or forked call
\* generates and the namespaces it hands to its workers.
OptimizeTrials(nb) ==
    /\ tpc = "parsed"
    /\ last' = [op |-> "generate", nb |-> nb]
    /\ Generate(nb)
    /\ UNCHANGED <<strategy, added, opt_args, tpc, base0>>
    /\ UNCHANGED <<pvars, fvars, svars>>

NextTrials ==
    \/ \E f \in PlainFlags : AddArgument(f)
    \/ \E f \in OptFlags, o \in OptionLists, t \in BOOLEAN : OptList(f, o, t)
    \/ \E f \in OptFlags, lo \in Lows, hi \in Highs, n \in SampleCounts,
          t \in BOOLEAN, b \in LogBases : OptRange(f, lo, hi, n, t, b)
    \/ \E v \in ParsedVals : ParseArgs(v)
    \/ \E n \in 0..MaxNbTrials : GenerateTrials(n)
    \/ \E n \in 0..MaxNbTrials : OptTrials(n)
    \/ \E n \in 0..MaxNbTrials : OptimizeTrials(n)

\* HyperOptArgumentParser(strategy=...).
InitTrials ==
    /\ InitParser /\ InitFork /\ InitSave
    /\ \E s \in Strategies : InitSearch(s)

SpecTrials == InitTrials /\ [][NextTrials]_vars

\* ------------------------------------- atomic_write and Experiment.save
\* log.py lines 573 and 575: tmp_path = str(dst_path) + '.tmp'; yield
\* tmp_path.  The name is the same for every process that saves to dst_path.
EnterAtomicWrite(p) ==
    /\ savers[p].pc = "idle"
    /\ savers' = [savers EXCEPT ![p].pc = "body"]
    /\ UNCHANGED <<fs_dst, fs_tmp, inode_data>>
    /\ UNCHANGED <<pvars, fvars, tvars>>

\* log.py line 353: open(tmp_path, 'w') creates the file, or truncates the
\* file that has the name already.
OpenTmp(p) ==
    /\ savers[p].pc = "body"
    /\ IF fs_tmp = NoFile
       THEN /\ fs_tmp' = Len(inode_data) + 1
            /\ inode_data' = Append(inode_data, EmptyData)
       ELSE /\ inode_data' = [inode_data EXCEPT ![fs_tmp] = EmptyData]
            /\ UNCHANGED fs_tmp
    /\ savers' = [savers EXCEPT ![p] = [pc |-> "write", ino |-> fs_tmp',
                                         off |-> 0]]
    /\ UNCHANGED fs_dst
    /\ UNCHANGED <<pvars, fvars, tvars>>

\* log.py line 354: json.dump writes the next chunk at the offset of this
\* process's file object, into the file it opened, whatever names that file
\* has by now.
WriteChunk(p) ==
    /\ savers[p].pc = "write"
    /\ savers[p].off < MaxChunks
    /\ inode_data' = [inode_data EXCEPT
                        ![savers[p].ino][savers[p].off + 1] =
                           <<p, savers[p].off + 1>>]
    /\ savers' = [savers EXCEPT ![p].off = @ + 1]
    /\ UNCHANGED <<fs_dst, fs_tmp>>
    /\ UNCHANGED <<pvars, fvars, tvars>>

\* log.py lines 353-354: the with-block ends without exception, the file is
\* closed; atomic_write goes on in its else clause.
BodyDone(p) ==
    /\ savers[p].pc = "write"
    /\ savers[p].off = MaxChunks
    /\ savers' = [savers EXCEPT ![p].pc = "move"]
    /\ UNCHANGED <<fs_dst, fs_tmp, inode_data>>
    /\ UNCHANGED <<pvars, fvars, tvars>>

\* The body raises, before it has opened the file or while it writes;
\* atomic_write goes on in its except clause (log.py line 576).
BodyRaises(p) ==
    /\ savers[p].pc \in {"body", "write"}
    /\ savers' = [savers EXCEPT ![p].pc = "except"]
    /\ UNCHANGED <<fs_dst, fs_tmp, inode_data>>
    /\ UNCHANGED <<pvars, fvars, tvars>>

\* log.py line 577: if os.path.exists(tmp_path).
ExceptExists(p) ==
    /\ savers[p].pc = "except"
    /\ savers' = [savers EXCEPT ![p].pc = IF fs_tmp # NoFile THEN "remove"
                                          ELSE "raised"]
    /\ UNCHANGED <<fs_dst, fs_tmp, inode_data>>
    /\ UNCHANGED <<pvars, fvars, tvars>>

\* log.py lines 578-579: os.remove(tmp_path), then raise; when the name is
\* gone by now os.remove raises itself.  Either way an exception leaves
\* atomic_write.
ExceptRemove(p) ==
    /\ savers[p].pc = "remove"
    /\ fs_tmp' = NoFile
    /\ savers' = [savers EXCEPT ![p].pc = "raised"]
    /\ UNCHANGED <<fs_dst, inode_data>>
    /\ UNCHANGED <<pvars, fvars, tvars>>

\* log.py lines 580-582: shutil.move(tmp_path, str(dst_path)), a rename: the
\* name dst_path refers to the temporary file from now on; with no file of
\* the name tmp_path it raises FileNotFoundError.
MoveTmp(p) ==
    /\ savers[p].pc = "move"
    /\ IF fs_tmp # NoFile
       THEN /\ fs_dst' = fs_tmp
            /\ fs_tmp' = NoFile
            /\ savers' = [savers EXCEPT ![p].pc = "moved"]
       ELSE /\ savers' = [savers EXCEPT ![p].pc = "move_failed"]
            /\ UNCHANGED <<fs_dst, fs_tmp>>
    /\ UNCHANGED inode_data
    /\ UNCHANGED <<pvars, fvars, tvars>>

NextSave ==
    \/ \E p \in 1..MaxSavers : EnterAtomicWrite(p)
    \/ \E p \in 1..MaxSavers : OpenTmp(p)
    \/ \E p \in 1..MaxSavers : WriteChunk(p)
    \/ \E p \in 1..MaxSavers : BodyDone(p)
    \/ \E p \in 1..MaxSavers : BodyRaises(p)
    \/ \E p \in 1..MaxSavers : ExceptExists(p)
    \/ \E p \in 1..MaxSavers : ExceptRemove(p)
    \/ \E p \in 1..MaxSavers : MoveTmp(p)

SpecSave == Init /\ [][NextSave]_vars

\* ===================================================== the claims
Raised(i) == outcome[i] = <<"raise">>
Returned(i, v) == outcome[i] = <<"ret", v>>
Count(S) == Cardinality(S)
QCount(q, t) == Count({i \in DOMAIN q : q[i] = t})
HeldCount(t) == Count({w \in Workers : Holding(w) /\ wst[w].token = t})

\* C1: with distinct GPU ids seeded, no token is held by two workers at the
\* same time, and a token a worker holds is not in the queue, from which
\* another worker could get it, until that worker has put it back.
C1_NoDoubleIssue ==
    IsDistinct(seeded) =>
       /\ \A w1, w2 \in Workers :
             (w1 # w2 /\ Holding(w1) /\ Holding(w2))
                => wst[w1].token # wst[w2].token
       /\ \A w \in Workers : Holding(w) => wst[w].token \notin Range(gpu_q)

\* Two workers run their callbacks at the same time, each holding a token
\* of a queue seeded with two distinct ids.
C1_Witness ==
    /\ IsDistinct(seeded)
    /\ Len(seeded) >= 2
    /\ \E w1, w2 \in Workers :
          w1 # w2 /\ wst[w1].pc = "gpu_call" /\ wst[w2].pc = "gpu_call"

\* C2 (as claimed): a token acquired for a trial is returned on every exit
\* path of the trial's execution, a crash of the worker included: every
\* seeded token is either in the queue or held by a worker that is still
\* executing its trial.
C2_ReturnedOnEveryExit ==
    \A t \in Tokens : QCount(gpu_q, t) + HeldCount(t) = QCount(seeded, t)

\* C3: once a pooled run has completed, by returning or by raising, the
\* queue holds exactly the tokens it was seeded with, each as many times.
C3_QueueRestored ==
    status # "running" => SeqToBag(gpu_q) = SeqToBag(seeded)

\* A further pooled-GPU run on the parser has returned, one callback having
\* raised and another having returned.
C3_Witness ==
    /\ status = "returned"
    /\ IsGpu
    /\ ~made_pool
    /\ seeded # <<>>
    /\ \E i, j \in DOMAIN outcome : Raised(i) /\ Returned(j, "r1")

\* C4 (as claimed): a pooled-GPU call whose callbacks raise still returns one
\* entry per trial, [configuration, None] for a failed trial and the
\* callback's return value for the others, and with k failing callbacks
\* exactly k entries are failure entries [configuration, None].
C4_ExactlyKFailureEntries ==
    (IsGpu /\ status = "returned") =>
       /\ Len(results) = Len(trials)
       /\ Count({i \in DOMAIN results : results[i][2] = None})
             = Count({i \in DOMAIN outcome : Raised(i)})

\* C4 (amended): a callback's failure never makes a pooled-GPU call raise;
\* the call returns one entry per trial, [configuration, None] for a failed
\* trial and [configuration, v] for a trial whose callback returned v; the
\* entries with outcome None are those of the k failed trials and of the
\* trials whose callback returned None.
C4_FailureIsolated ==
    IsGpu =>
       /\ (\E i \in DOMAIN outcome : Raised(i)) => status # "raised"
       /\ status = "returned" =>
             /\ Len(results) = Len(trials)
             /\ \A i \in DOMAIN results :
                   /\ Raised(i) => results[i] = <<trials[i], None>>
                   /\ \A v \in RetVals :
                         Returned(i, v) => results[i] = <<trials[i], v>>
             /\ Count({i \in DOMAIN results : results[i][2] = None})
                   = Count({i \in DOMAIN outcome : Raised(i)})
                     + Count({i \in DOMAIN outcome : Returned(i, None)})

\* A pooled-GPU call has returned two entries; one trial's callback raised,
\* the other's returned a value.
C4_Witness ==
    /\ IsGpu
    /\ status = "returned"
    /\ Len(results) = 2
    /\ \E i, j \in DOMAIN outcome : Raised(i) /\ Returned(j, "r1")

\* C5: in both pooled models the i-th entry returned is the configuration
\* and the outcome of the i-th trial submitted, whatever the order in which
\* the trials were completed.
C5_SubmissionOrder ==
    status = "returned" =>
       /\ Len(results) = Len(trials)
       /\ \A i \in DOMAIN results :
             /\ results[i][1] = trials[i]
             /\ results[i][2] = IF Raised(i) THEN None ELSE outcome[i][2]

\* A call has returned in which a trial was completed before one submitted
\* earlier.
C5_Witness ==
    /\ status = "returned"
    /\ Len(results) >= 2
    /\ overtaken

\* C6: in the pooled-CPU model a callback's failure is not isolated: once a
\* callback has raised, the call returns no result sequence, and when it
\* ends it ends by raising to its caller.
C6_CpuFailurePropagates ==
    (entry = "cpu" /\ \E i \in DOMAIN outcome : Raised(i)) =>
       /\ status \in {"running", "raised"}
       /\ results = <<>>
       /\ ~map_result.success

\* A pooled-CPU call has raised after one callback raised and another
\* returned.
C6_Witness ==
    /\ entry = "cpu"
    /\ status = "raised"
    /\ \E i, j \in DOMAIN outcome : Raised(i) /\ Returned(j, "r1")

\* C7: every child alive belongs to the batch the parent is in, so children
\* of two batches are never alive together, and when the parent is about to
\* fork the first child of a batch no child of an earlier batch is alive.
C7_OneBatchAlive ==
    /\ \A c \in DOMAIN procs :
          procs[c].state = "running" => procs[c].batch = batch_i
    /\ (fpc = "fork" /\ trial_j = 1) =>
          \A c \in DOMAIN procs : procs[c].state # "running"

\* The parent is in the second batch with a child of it alive, after a
\* first batch of at least two children.
C7_Witness ==
    /\ batch_i = 2
    /\ \E c \in DOMAIN procs : procs[c].batch = 2 /\ procs[c].state = "running"
    /\ Count({c \in DOMAIN procs : procs[c].batch = 1}) >= 2

\* C8: n trials with parallelism p >= 1 are split in submission order into
\* ceil(n/p) consecutive batches, each of size p except a last one of size
\* n mod p when p does not divide n; no trial is run by two children, and
\* when the call is done each trial has been run by exactly one child.
C8_Batches ==
    fpc # "idle" =>
       LET n == nb_trials
           p == nb_parallel
           B == fork_batches
       IN  /\ Len(B) = (n + p - 1) \div p
           /\ \A k \in DOMAIN B :
                 /\ Len(B[k]) = IF k < Len(B) \/ n % p = 0 THEN p ELSE n % p
                 /\ \A j \in DOMAIN B[k] : B[k][j] = (k - 1) * p + j
           /\ \A t \in 1..n :
                 Count({c \in DOMAIN procs : procs[c].trial = t}) <= 1
           /\ fpc = "done" =>
                 \A t \in 1..n :
                    Count({c \in DOMAIN procs : procs[c].trial = t}) = 1

\* 5 trials with parallelism 2 have been run in batches of sizes 2, 2, 1.
C8_Witness ==
    /\ fpc = "done"
    /\ nb_trials = 5
    /\ nb_parallel = 2
    /\ Len(fork_batches) = 3
    /\ Len(fork_batches[1]) = 2
    /\ Len(fork_batches[2]) = 2
    /\ Len(fork_batches[3]) = 1
    /\ Len(procs) = 5

ParentVars == <<fpc, nb_trials, nb_parallel, fork_batches, batch_i, trial_j,
                children, wait_k>>

\* C9: the step by which a child ends with a non-zero exit status changes
\* neither the parent nor any other child, and the parent gets to the end of
\* the call only when every trial of every batch was forked and waited for,
\* failed children included.
C9_ChildFailureIsolated ==
    /\ [][\A c \in DOMAIN procs :
            (/\ procs[c].state = "running"
             /\ c \in DOMAIN procs'
             /\ procs'[c].state = "exited"
             /\ procs'[c].code # 0)
              => /\ UNCHANGED ParentVars
                 /\ \A d \in DOMAIN procs \ {c} :
                       d \in DOMAIN procs' /\ procs'[d] = procs[d]]_vars
    /\ [](fpc = "done" =>
            \A t \in 1..nb_trials :
               \E c \in DOMAIN procs :
                  procs[c].trial = t /\ procs[c].state = "reaped")

\* The call is done; a child of the first batch failed, its sibling
\* returned, and a later batch was run.
C9_Witness ==
    /\ fpc = "done"
    /\ \E c, d \in DOMAIN procs :
          /\ procs[c].batch = 1 /\ procs[c].code = 1
          /\ procs[d].batch = 1 /\ procs[d].code = 0 /\ c # d
    /\ \E c \in DOMAIN procs : procs[c].batch = 2 /\ procs[c].state = "reaped"

\* C10: the parser has no pool before its first pooled call, exactly one
\* from then on, and a pool once created is never replaced or changed.
C10_PoolCreatedOnce ==
    /\ [](IF entry = "none"
          THEN pool = NoPool /\ pools_created = 0
          ELSE pool # NoPool /\ pools_created = 1 /\ pool.id = 1)
    /\ [][pool # NoPool => pool' = pool]_vars

\* A pooled-CPU call has returned that ran on the pool an earlier pooled-GPU
\* call created.
C10_Witness ==
    /\ entry = "cpu"
    /\ status = "returned"
    /\ ~made_pool
    /\ pool.has_q
    /\ Len(results) >= 1

\* C11: in every pooled-GPU call the queue the workers draw from was seeded
\* from the GPU-id list supplied to that call (as many tokens as the call
\* supplied ids), and every token a worker holds is an entry of that list.
C11_SeededFromThisCall ==
    IsGpu =>
       /\ pool.has_q
       /\ seeded = args.gpu_ids
       /\ \A w \in 1..MaxWorkers :
             Holding(w) => wst[w].token \in Range(args.gpu_ids)

\* C12: at every instant the number of trial executions that hold a token
\* is at most the number of tokens seeded and at most the number of workers
\* of the pool.
C12_HoldersBounded ==
    /\ Count({w \in 1..MaxWorkers : Holding(w)}) <= Len(seeded)
    /\ Count({w \in 1..MaxWorkers : Holding(w)}) <= pool.processes

\* Every seeded token is held and a further worker is blocked in get on the
\* empty queue.
C12_Witness ==
    /\ Len(seeded) >= 1
    /\ Count({w \in 1..MaxWorkers : Holding(w)}) = Len(seeded)
    /\ gpu_q = <<>>
    /\ \E w \in Workers : wst[w].pc = "gpu_get"

\* ------------------------------------------- the claims on SpecTrials
Names(trial) == {trial[j].name : j \in DOMAIN trial}
Ids(params) == {params[i].obj_id : i \in DOMAIN params}
Tunables(params) == {i \in DOMAIN params : params[i].tunable}
Generated == last.op = "generate" /\ terr = "none"

\* C13: the configuration built from a trial and the base is the base with
\* every assignment of the trial applied by name: a name the base has is
\* overridden, a name it lacks is added, every other entry of the base is
\* passed through unchanged.
C13_BuildOverridesByName ==
    \A i \in DOMAIN configs :
       /\ DOMAIN configs[i] = DOMAIN base0 \cup Names(raw_trials[i])
       /\ \A j \in DOMAIN raw_trials[i] :
             configs[i][raw_trials[i][j].name] = raw_trials[i][j].val
       /\ \A k \in DOMAIN base0 \ Names(raw_trials[i]) :
             configs[i][k] = base0[k]

\* A configuration was built from a trial that overrides one entry of the
\* base with another value and adds a name the base lacks, while a third
\* entry is passed through.
C13_Witness ==
    /\ Generated
    /\ \E i \in DOMAIN configs :
          /\ \E j \in DOMAIN raw_trials[i] :
                /\ raw_trials[i][j].name \in DOMAIN base0
                /\ raw_trials[i][j].val # base0[raw_trials[i][j].name]
          /\ \E j \in DOMAIN raw_trials[i] :
                raw_trials[i][j].name \notin DOMAIN base0
          /\ Dest(FlagA) \in DOMAIN configs[i]

\* C14: building configurations never changes the base configuration: from
\* parse_args on self.parsed_args has the keys and values parse_args gave
\* it, whatever calls generated trials since, and the keys of each built
\* configuration are those of the base and of its own trial only.
C14_BaseUnchanged ==
    tpc = "parsed" =>
       /\ parsed_args = base0
       /\ \A i \in DOMAIN configs :
             DOMAIN configs[i] = DOMAIN base0 \cup Names(raw_trials[i])

\* Two different configurations were built by one call, each overriding an
\* entry of the base, and the base is as parse_args left it.
C14_Witness ==
    /\ Generated
    /\ Len(configs) >= 2
    /\ configs[1] # configs[2]
    /\ \E k \in DOMAIN base0 : configs[1][k] # base0[k]
    /\ \E k \in DOMAIN base0 : configs[2][k] # base0[k]
    /\ parsed_args = base0

\* The last call declared a log-scale range whose bounds break
\* 0 < low <= high.
BadLogRange ==
    /\ last.op = "opt_range"
    /\ last.log_base # <<>>
    /\ ~(last.high >= last.low /\ last.low > 0)

\* C15: a log-scale range with a low bound that is zero or negative, or above
\* high, fails at its declaration for every value of the sample count, and
\* the parameter is not declared.
C15_FailsForEverySampleCount ==
    BadLogRange =>
       /\ terr = "AssertionError"
       /\ last.flag \notin Ids(opt_args)

\* C16: a range declared with sample count k leaves the parameter with a
\* list of exactly k candidates, each between low and high, with and
\* without a log base.
C16_HoldsKSamples ==
    last.op = "opt_range" /\ last.nb_samples # 0 /\ terr = "none" =>
       \A i \in DOMAIN opt_args :
          opt_args[i].obj_id = last.flag =>
             /\ opt_args[i].opt_values.list
             /\ Len(opt_args[i].opt_values.vals) = last.nb_samples
             /\ \A v \in Range(opt_args[i].opt_values.vals) :
                   last.low <= v /\ v <= last.high

\* C17: the candidates are frozen at the declaration: no call that generates
\* trials changes the candidates or the tunable flag of a declared parameter,
\* and every value a generated trial assigns is one of the candidates of the
\* parameter it is assigned to, and is the value the built configuration has.
C17_CandidatesFrozen ==
    /\ [][tpc = "parsed" => opt_args' = opt_args]_vars
    /\ [](\A i \in DOMAIN raw_trials : \A j \in DOMAIN raw_trials[i] :
             /\ raw_trials[i][j].idx + 1 \in Tunables(opt_args)
             /\ raw_trials[i][j].val \in
                  Range(opt_args[raw_trials[i][j].idx + 1].opt_values.vals)
             /\ configs[i][raw_trials[i][j].name] = raw_trials[i][j].val)

\* Trials were generated over a tunable parameter declared as a range; a trial
\* assigns it its high bound.
C17_Witness ==
    /\ Generated
    /\ \E p \in Tunables(opt_args) :
          /\ opt_args[p].opt_values.vals = <<0, 2>>
          /\ \E i \in DOMAIN raw_trials : \E j \in DOMAIN raw_trials[i] :
                raw_trials[i][j].idx + 1 = p /\ raw_trials[i][j].val = 2

\* The position in params of the g-th tunable parameter.
TunableAt(params, g) ==
    CHOOSE p \in Tunables(params) :
       Cardinality({q \in Tunables(params) : q <= p}) = g

\* C18: the flattened space has one group per tunable parameter, in the
\* order of declaration; a group lists the candidates of its parameter in
\* their order, each as a record of index, name and value; a parameter that
\* is not tunable has no group.
C18_OneGroupPerTunable ==
    ~FlattenRaises(opt_args) =>
       /\ Len(FlattenParams(opt_args)) = Cardinality(Tunables(opt_args))
       /\ \A g \in DOMAIN FlattenParams(opt_args) :
             LET p == TunableAt(opt_args, g)
                 group == FlattenParams(opt_args)[g]
             IN  /\ Len(group) = Len(opt_args[p].opt_values.vals)
                 /\ \A j \in DOMAIN group :
                       group[j] = [idx |-> p - 1,
                                   val |-> opt_args[p].opt_values.vals[j],
                                   name |-> CleanName(opt_args[p].obj_id)]

\* Trials were generated from a space whose first parameter is not tunable
\* and whose second is, with two candidates.
C18_Witness ==
    /\ Generated
    /\ Len(opt_args) = 2
    /\ ~opt_args[1].tunable
    /\ opt_args[2].tunable
    /\ Len(FlattenParams(opt_args)) = 1
    /\ Len(FlattenParams(opt_args)[1]) = 2
    /\ Len(raw_trials) >= 1

\* The record of candidate j of the parameter at position p.
Candidate(p, j) ==
    [idx |-> p - 1, val |-> opt_args[p].opt_values.vals[j],
     name |-> CleanName(opt_args[p].obj_id)]

\* C19: grid search over two tunable parameters with m and n candidates
\* yields m * n trials, all different, one for each pair of candidates, the
\* first parameter varying slowest and each parameter in candidate order.
C19_GridIsTheProduct ==
    Generated /\ strategy = "grid_search" /\ Tunables(opt_args) = {1, 2} =>
       LET m == Len(opt_args[1].opt_values.vals)
           n == Len(opt_args[2].opt_values.vals)
       IN  /\ Len(raw_trials) = m * n
           /\ IsDistinct(raw_trials)
           /\ \A a \in 1..m, b \in 1..n :
                 raw_trials[(a - 1) * n + b]
                    = <<Candidate(1, a), Candidate(2, b)>>
           /\ Len(configs) = m * n

\* Grid search ran over two parameters with two candidates each, asked for
\* one trial, and gave four.
C19_Witness ==
    /\ Generated
    /\ strategy = "grid_search"
    /\ Tunables(opt_args) = {1, 2}
    /\ Len(opt_args[1].opt_values.vals) = 2
    /\ Len(opt_args[2].opt_values.vals) = 2
    /\ opt_args[1].opt_values.vals # opt_args[2].opt_values.vals
    /\ last.nb = 1
    /\ Len(raw_trials) = 4

\* C20: random search asked for N trials yields N trials and N built
\* configurations; each trial assigns every tunable parameter exactly one
\* value, one of its candidates, and nothing else.
C20_RandomYieldsN ==
    Generated /\ strategy = "random_search" =>
       /\ Len(raw_trials) = last.nb
       /\ Len(configs) = last.nb
       /\ \A i \in DOMAIN raw_trials :
             /\ Len(raw_trials[i]) = Cardinality(Tunables(opt_args))
             /\ \A p \in Tunables(opt_args) :
                   /\ Cardinality({j \in DOMAIN raw_trials[i] :
                                     raw_trials[i][j].idx = p - 1}) = 1
                   /\ \E j \in DOMAIN raw_trials[i] :
                         /\ raw_trials[i][j].idx = p - 1
                         /\ raw_trials[i][j].val
                              \in Range(opt_args[p].opt_values.vals)

\* Random search was asked for two trials over two tunable parameters and
\* drew the same trial twice.
C20_Witness ==
    /\ Generated
    /\ strategy = "random_search"
    /\ Cardinality(Tunables(opt_args)) = 2
    /\ last.nb = 2
    /\ Len(raw_trials) = 2
    /\ raw_trials[1] = raw_trials[2]
    /\ Len(opt_args[1].opt_values.vals) = 2

\* C21: while a worker runs a callback, the CUDA_VISIBLE_DEVICES of its
\* process is the token it holds, a token the queue was seeded with, and
\* that token is not back in the queue: the queue and the holders together
\* have no more copies of it than were seeded.
C21_DeviceIsHeldToken ==
    \A w \in 1..MaxWorkers :
       wst[w].pc = "gpu_call" =>
          /\ wst[w].token \in Range(seeded)
          /\ wst[w].env = wst[w].token
          /\ QCount(gpu_q, wst[w].token) + HeldCount(wst[w].token)
                <= QCount(seeded, wst[w].token)

\* A worker that ran an earlier trial on token 0 now runs a callback on
\* token 1, with token 0 back in the queue.
C21_Witness ==
    \E w \in Workers :
       /\ wst[w].pc = "gpu_call"
       /\ wst[w].token = 1
       /\ wst[w].env = 1
       /\ wst[w].task = 2
       /\ outcome[1] # NotRun
       /\ gpu_q = <<0>>
       /\ pool.processes = 1

\* C22: no worker-side failure of a pooled-GPU call reaches its caller,
\* whatever pooled calls came before on the parser: the call does not raise,
\* and when it has returned it has one entry per trial, each trial having
\* run its callback while holding a token.
C22_NoFailureReachesCaller ==
    IsGpu =>
       /\ status # "raised"
       /\ status = "returned" =>
             /\ Len(results) = Len(trials)
             /\ \A i \in DOMAIN trials : outcome[i] # NotRun

Hung(w) == wst[w].pc = "gpu_hung"

\* C23: a callback that never returns keeps its token for ever: the stuck
\* worker stays as it is, its token is not in the queue again, the queue
\* never has more than the seeded tokens less one for each stuck worker, and
\* the call that submitted the trial does not return.
C23_HungCallbackHoldsToken ==
    /\ [][\A w \in 1..MaxWorkers : Hung(w) => wst'[w] = wst[w]]_vars
    /\ [](\A w \in 1..MaxWorkers :
             Hung(w) =>
                /\ status = "running"
                /\ QCount(gpu_q, wst[w].token) + HeldCount(wst[w].token)
                      <= QCount(seeded, wst[w].token)
                /\ Len(gpu_q) + Count({v \in 1..MaxWorkers : Hung(v)})
                      <= Len(seeded))

\* One callback is stuck on the only token, every other task has been taken
\* and a second worker is blocked in get on the empty queue.
C23_Witness ==
    /\ Len(seeded) = 1
    /\ gpu_q = <<>>
    /\ taskq = <<>>
    /\ \E w, v \in Workers :
          /\ Hung(w)
          /\ wst[v].pc = "gpu_get"

\* C24: a pooled-GPU call made with a non-empty GPU-id list, whose callbacks
\* all return or raise, ends under fair scheduling by returning, with an
\* outcome for every trial.
C24_EveryGpuRunTerminates ==
    (IsGpu /\ status = "running" /\ args.gpu_ids # <<>>)
       ~> (IsGpu /\ status = "returned"
              /\ \A i \in DOMAIN trials : outcome[i] # NotRun)

\* C25: only the parent forks: every process was forked by the parent, in the
\* batch the parent was in; a child that has terminated, by returning or by
\* raising, takes no further step; and at most nb_parallel children are
\* alive at any instant.
C25_OnlyParentForks ==
    /\ [](\A c \in DOMAIN procs : procs[c].parent = ParentPid)
    /\ [](Count({c \in DOMAIN procs : procs[c].state = "running"})
             <= nb_parallel)
    /\ [][Len(procs') > Len(procs) =>
             /\ fpc = "fork"
             /\ Len(procs') = Len(procs) + 1
             /\ procs'[Len(procs')].parent = ParentPid
             /\ procs'[Len(procs')].batch = batch_i]_vars
    /\ [][\A c \in DOMAIN procs \cap DOMAIN procs' :
             procs[c].state # "running" =>
                /\ procs'[c].state # "running"
                /\ procs'[c].batch = procs[c].batch
                /\ procs'[c].trial = procs[c].trial
                /\ procs'[c].code = procs[c].code]_vars

\* The parent has forked a whole second batch of nb_parallel >= 2 children,
\* all alive, after a first batch in which one child raised and one returned.
C25_Witness ==
    /\ nb_parallel >= 2
    /\ batch_i = 2
    /\ Count({c \in DOMAIN procs : procs[c].state = "running"}) = nb_parallel
    /\ \E c, d \in DOMAIN procs :
          /\ procs[c].batch = 1 /\ procs[c].state = "reaped" /\ procs[c].code = 1
          /\ procs[d].batch = 1 /\ procs[d].state = "reaped" /\ procs[d].code = 0

\* C26: for every tunable parameter the name its candidates carry in the
\* flattened space is the key parse_args stores the parameter under, so a
\* built configuration has the keys of the base configuration and no other,
\* the trial's value standing under the parameter's key.
C26_OneKeyPerParameter ==
    Generated =>
       /\ \A g \in DOMAIN FlattenParams(opt_args) :
             \A j \in DOMAIN FlattenParams(opt_args)[g] :
                FlattenParams(opt_args)[g][j].name
                   = Dest(opt_args[FlattenParams(opt_args)[g][j].idx + 1].obj_id)
       /\ \A i \in DOMAIN configs :
             /\ DOMAIN configs[i] = DOMAIN base0
             /\ \A j \in DOMAIN raw_trials[i] :
                   configs[i][Dest(opt_args[raw_trials[i][j].idx + 1].obj_id)]
                      = raw_trials[i][j].val

\* C27: atomic_write replaces dst only on success, also with several
\* processes saving to the same dst: a body that finished has its temporary
\* file moved onto dst, and dst always holds a complete content, the one it
\* had before or the one of a finished body, never a partial one.
C27_DstOnlyReplacedOnSuccess ==
    /\ \A p \in 1..MaxSavers : savers[p].pc # "move_failed"
    /\ inode_data[fs_dst] \in {OldData} \cup {FullData(p) : p \in 1..MaxSavers}
    /\ \A p \in 1..MaxSavers :
          inode_data[fs_dst] = FullData(p) => savers[p].pc = "moved"

==========================================================================
